---------------------------- MODULE Spec2Model ----------------------------
(***************************************************************************)
(* A model of the Leia voice front end: the session controller            *)
(* (src/leia.py), the command dispatcher (src/speech_handlers/default.py)  *)
(* and the dictation handler (src/speech_handlers/dictation.py).           *)
(*                                                                         *)
(* Text is modelled character by character: a Python str is a sequence of  *)
(* one-character strings, so that lower(), split(), strip(), join() and    *)
(* capitalize() are computed the way Python computes them.                 *)
(***************************************************************************)
EXTENDS Integers, Sequences, FiniteSets, TLC

VARIABLES
    controller_state,   \* SpeechController.state
    done,               \* SpeechController.done (threading.Event)
    recognizing,        \* the adapter still delivers utterances
    window_open,        \* the control window's main loop is running
    handler_state,      \* DefaultSpeechHandler.state
    handler_chain,      \* DefaultSpeechHandler._handler_chain
    last_text,          \* DictationSpeechHandler.last_text
    special_chars,      \* DictationSpeechHandler.special_chars
    call,               \* the last completed operation and what it did
    script,             \* position and emissions of the scripted scenario
    running,            \* the process is alive: main() has not returned
    injected,           \* the text of the latest successful typewrite, if any
    vosk_running,       \* VoskRecognizer._running
    stream,             \* VoskRecognizer.stream: "none" or "active"
    audio_queue,        \* VoskRecognizer.audio_queue: the blocks waiting
    loop_pc,            \* where the thread calling VoskRecognizer.start() is
    stop_pc,            \* where the thread calling VoskRecognizer.stop() is
    delivered,          \* the callback invocations of the adapter so far
    callback_arg,       \* the adapter and the text of the latest callback call
    pause_pc,           \* where each thread is inside pause() or resume()
    pause_calls,        \* the pause() and resume() calls each thread has made
    paused_hint         \* the argument of the adapter's latest set_paused call

session_vars ==
    <<controller_state, done, recognizing, window_open, handler_state,
      handler_chain, last_text, special_chars, call, script, running,
      injected>>

vosk_vars ==
    <<vosk_running, stream, audio_queue, loop_pc, stop_pc, delivered,
      callback_arg>>

pause_vars == <<pause_pc, pause_calls, paused_hint>>

vars == <<session_vars, vosk_vars, pause_vars>>

---------------------------------------------------------------------------
(* Python str operations                                                   *)

LowerLetters ==
    <<"a","b","c","d","e","f","g","h","i","j","k","l","m",
      "n","o","p","q","r","s","t","u","v","w","x","y","z">>

UpperLetters ==
    <<"A","B","C","D","E","F","G","H","I","J","K","L","M",
      "N","O","P","Q","R","S","T","U","V","W","X","Y","Z">>

DigitChars == {"0","1","2","3","4","5","6","7","8","9"}

Whitespace == {" ", "\t", "\n"}

Range(s) == {s[i] : i \in DOMAIN s}

\* str.lower() on one character
lower_char(c) ==
    IF \E i \in DOMAIN UpperLetters : UpperLetters[i] = c
    THEN LowerLetters[CHOOSE i \in DOMAIN UpperLetters : UpperLetters[i] = c]
    ELSE c

\* str.upper() on one character
upper_char(c) ==
    IF \E i \in DOMAIN LowerLetters : LowerLetters[i] = c
    THEN UpperLetters[CHOOSE i \in DOMAIN LowerLetters : LowerLetters[i] = c]
    ELSE c

\* str.lower()
lower(s) == [i \in DOMAIN s |-> lower_char(s[i])]

\* str.isalnum() on one character
isalnum(c) == c \in Range(LowerLetters) \cup Range(UpperLetters) \cup DigitChars

\* str.capitalize(): first character upper-cased, the rest lower-cased
capitalize(s) ==
    [i \in DOMAIN s |-> IF i = 1 THEN upper_char(s[i]) ELSE lower_char(s[i])]

RECURSIVE lstrip(_)
lstrip(s) ==
    IF s # <<>> /\ Head(s) \in Whitespace THEN lstrip(Tail(s)) ELSE s

RECURSIVE rstrip(_)
rstrip(s) ==
    IF s # <<>> /\ s[Len(s)] \in Whitespace
    THEN rstrip(SubSeq(s, 1, Len(s) - 1)) ELSE s

\* str.strip()
strip(s) == rstrip(lstrip(s))

\* s[-1]
last_char(s) == s[Len(s)]

\* s[n:]
slice_from(s, n) == SubSeq(s, n + 1, Len(s))

\* str.split(): the whitespace-separated words, no empty word
RECURSIVE split_acc(_, _, _)
split_acc(s, word, words) ==
    IF s = <<>>
    THEN (IF word = <<>> THEN words ELSE Append(words, word))
    ELSE IF Head(s) \in Whitespace
         THEN split_acc(Tail(s), <<>>,
                        IF word = <<>> THEN words ELSE Append(words, word))
         ELSE split_acc(Tail(s), Append(word, Head(s)), words)

split(s) == split_acc(s, <<>>, <<>>)

\* ' '.join(words)
RECURSIVE join(_)
join(words) ==
    IF words = <<>> THEN <<>>
    ELSE IF Len(words) = 1 THEN words[1]
    ELSE words[1] \o <<" ">> \o join(Tail(words))

\* sub in s
contains(s, sub) ==
    \E i \in 0..(Len(s) - Len(sub)) : SubSeq(s, i + 1, i + Len(sub)) = sub

---------------------------------------------------------------------------
(* Words of the programs' vocabulary                                       *)

W_leah   == <<"l","e","a","h">>
W_lea    == <<"l","e","a">>
W_leeah  == <<"l","e","e","a","h">>
W_leia   == <<"l","e","i","a">>
W_laya   == <<"l","a","y","a">>
W_layah  == <<"l","a","y","a","h">>
W_leja   == <<"l","e","j","a">>
W_lejah  == <<"l","e","j","a","h">>

W_stop   == <<"s","t","o","p">>
W_pause  == <<"p","a","u","s","e">>
W_resume == <<"r","e","s","u","m","e">>
W_launch == <<"l","a","u","n","c","h">>
W_close  == <<"c","l","o","s","e">>
W_press  == <<"p","r","e","s","s">>
W_return == <<"r","e","t","u","r","n">>
W_undo   == <<"u","n","d","o">>
W_put    == <<"p","u","t">>
W_puts   == <<"p","u","t","s">>
W_putz   == <<"p","u","t","z">>
W_a      == <<"a">>
W_an     == <<"a","n">>

\* the accepted spellings of the wake word
WakeWords ==
    {W_leah, W_lea, W_leeah, W_leia, W_laya, W_layah, W_leja, W_lejah}

PutWords == {W_put, W_puts, W_putz}


\* words and texts used as utterances
W_period == <<"p","e","r","i","o","d">>
W_comma  == <<"c","o","m","m","a">>
W_dash   == <<"d","a","s","h">>
W_hello  == <<"h","e","l","l","o">>
W_world  == <<"w","o","r","l","d">>
W_today  == <<"t","o","d","a","y",".">>
W_notepad == <<"n","o","t","e","p","a","d">>
W_zzzznotapp == <<"z","z","z","z","n","o","t","a","p","p">>

T_HelloWorld == <<"H","e","l","l","o"," ","W","o","r","l","d">>
T_well       == <<"w","e","l","l",",">>
T_and        == <<",", " ", "a","n","d">>
T_why        == <<"w","h","y","?">>

\* "<first> <second> ..." as one text
Utter(words) == join(words)

---------------------------------------------------------------------------
(* The phrase map (files/Specialcharacters.json), loaded at construction   *)

PhraseMapPeriod == (W_period :> <<".">>)

PhraseMapPunctuation ==
    (W_period :> <<".">>) @@ (W_comma :> <<",">>) @@ (W_dash :> <<"-">>)

PhraseMapNoPeriod == (W_comma :> <<",">>)

PhraseMaps == {PhraseMapPeriod, PhraseMapPunctuation, PhraseMapNoPeriod}

\* x in special_chars.values()
in_values(c, sc) == \E k \in DOMAIN sc : sc[k] = <<c>>

---------------------------------------------------------------------------
(* speech_handlers/helpers/grammar.py                                      *)

is_indefinite_article(word) == lower(word) \in {W_a, W_an}

---------------------------------------------------------------------------
(* speech_handlers/dictation.py                                            *)

\* the wake-word test of dictation.py (lines 65 and 72)
is_wake_word(word) == lower(word) \in WakeWords

\* the undo test without the test of the length
is_undo_any_length(text) ==
    LET words == split(lower(text))
    IN  Len(words) >= 2 /\ is_wake_word(words[1]) /\ lower(words[2]) = W_undo

\* line 65: the undo command
is_undo(text) ==
    LET words == split(lower(text))
    IN  Len(words) = 2 /\ is_wake_word(words[1]) /\ lower(words[2]) = W_undo

\* line 72: the put command
is_put(text) ==
    LET words == split(lower(text))
    IN  Len(words) >= 3 /\ is_wake_word(words[1]) /\ lower(words[2]) \in PutWords

\* put_phrase with the article left in the phrase
put_phrase_keeps_article(text) ==
    LET words == split(lower(text))
    IN  strip(join(SubSeq(words, 3, Len(words))))

\* lines 73-75: the phrase looked up in the phrase map
put_phrase(text) ==
    LET words == split(lower(text))
        rest  == IF is_indefinite_article(words[3])
                 THEN SubSeq(words, 4, Len(words))
                 ELSE words
    IN  strip(join(rest))

\* lines 72-80: the text to emit once a put command is replaced
put_text(text, sc) ==
    IF is_put(text)
    THEN IF put_phrase(text) \in DOMAIN sc THEN sc[put_phrase(text)] ELSE <<>>
    ELSE text

\* continuity capitalizing the first text of all
continuity_capitalizing_first(text, last, sc) ==
    IF last = <<>> THEN capitalize(text)
    ELSE IF strip(last) = <<>> THEN capitalize(text)
    ELSE LET t1 == IF last_char(strip(last)) \in {".", "!", "?"}
                   THEN <<" ">> \o capitalize(text)
                   ELSE text
         IN  IF ~isalnum(last_char(last)) THEN t1
             ELSE IF strip(t1) = <<>> THEN capitalize(t1)
             ELSE IF /\ last_char(strip(t1)) \notin {",", ":", ";"}
                     /\ ~in_values(last_char(strip(t1)), sc)
                  THEN <<" ">> \o t1
                  ELSE t1

\* continuity without the space after a sentence-terminal mark
continuity_no_leading_space(text, last, sc) ==
    IF last = <<>> THEN text
    ELSE IF strip(last) = <<>> THEN capitalize(text)
    ELSE LET t1 == IF last_char(strip(last)) \in {".", "!", "?"}
                   THEN capitalize(text)
                   ELSE text
         IN  IF ~isalnum(last_char(last)) THEN t1
             ELSE IF strip(t1) = <<>> THEN capitalize(t1)
             ELSE IF /\ last_char(strip(t1)) \notin {",", ":", ";"}
                     /\ ~in_values(last_char(strip(t1)), sc)
                  THEN <<" ">> \o t1
                  ELSE t1

\* lines 84-91: spacing and capitalization against last_text. An IndexError
\* raised by [-1] on an empty string is caught by the bare except (line 90).
continuity(text, last, sc) ==
    IF last = <<>> THEN text
    ELSE IF strip(last) = <<>> THEN capitalize(text)
    ELSE LET t1 == IF last_char(strip(last)) \in {".", "!", "?"}
                   THEN <<" ">> \o capitalize(text)
                   ELSE text
         IN  IF ~isalnum(last_char(last)) THEN t1
             ELSE IF strip(t1) = <<>> THEN capitalize(t1)
             ELSE IF /\ last_char(strip(t1)) \notin {",", ":", ";"}
                     /\ ~in_values(last_char(strip(t1)), sc)
                  THEN <<" ">> \o t1
                  ELSE t1

\* What one handler call did: ret is the value returned (<<>> when the call
\* raised), state and last_text the handlers' fields after it, typed the
\* arguments of pyautogui.typewrite, injected those of the calls that
\* succeeded, keys the keys sent, dictated the number
\* of calls of the dictation handler, launched and closed the applications
\* started and killed, notices the failure lines printed, handlers the
\* handlers of the chain that were called, in order.
Quiet(ret, state, last) ==
    [ret |-> ret, raised |-> FALSE, state |-> state, last_text |-> last,
     typed |-> <<>>, injected |-> <<>>, keys |-> <<>>, dictated |-> 0,
     launched |-> <<>>, closed |-> <<>>, notices |-> <<>>, handlers |-> <<>>]

\* handle_speech storing last_text before the text is injected
dictation_handle_speech_storing_first(text, state, last, sc, ok) ==
    IF is_undo(text)
    THEN [Quiet(<<>>, state, last) EXCEPT
             !.keys = <<"ctrl+z">>, !.dictated = 1, !.raised = ~ok]
    ELSE LET out == continuity(put_text(text, sc), last, sc)
         IN  IF ok
             THEN [Quiet(out, state, out) EXCEPT
                      !.typed = <<out>>, !.injected = <<out>>,
                      !.dictated = 1]
             ELSE [Quiet(<<>>, state, out) EXCEPT
                      !.typed = <<out>>, !.dictated = 1, !.raised = TRUE]

\* DictationSpeechHandler.handle_speech; ok: the automation call succeeds
dictation_handle_speech(text, state, last, sc, ok) ==
    IF is_undo(text)
    THEN [Quiet(<<>>, state, last) EXCEPT
             !.keys = <<"ctrl+z">>, !.dictated = 1, !.raised = ~ok]
    ELSE LET out == continuity(put_text(text, sc), last, sc)
         IN  IF ok
             THEN [Quiet(out, state, out) EXCEPT
                      !.typed = <<out>>, !.injected = <<out>>,
                      !.dictated = 1]
             ELSE [Quiet(<<>>, state, last) EXCEPT
                      !.typed = <<out>>, !.dictated = 1, !.raised = TRUE]

---------------------------------------------------------------------------
(* speech_handlers/default.py                                              *)

T_leah_stop   == Utter(<<W_leah, W_stop>>)
T_leah_pause  == Utter(<<W_leah, W_pause>>)
T_leah_resume == Utter(<<W_leah, W_resume>>)
T_leah_launch_ == Utter(<<W_leah, W_launch>>) \o <<" ">>

\* is_command accepting the spelling "leah" only
is_command_leah_only(words) == Len(words) >= 2 /\ words[1] = W_leah

\* the wake-word test of default.py (line 209)
is_command(words) == Len(words) >= 2 /\ words[1] \in WakeWords

\* launch_application letting the failed search escape as an exception
launch_application_raising(app_name, out, ok) ==
    IF ok
    THEN [out EXCEPT !.launched = Append(@, lower(app_name))]
    ELSE [out EXCEPT !.raised = TRUE]

\* launch_application: ok means an executable is found and started
launch_application(app_name, out, ok) ==
    IF ok
    THEN [out EXCEPT !.launched = Append(@, lower(app_name))]
    ELSE [out EXCEPT !.notices = Append(@, "Could not find application")]

\* close_application: a failing taskkill is caught and reported
close_application(app_name, out, ok) ==
    IF ok
    THEN [out EXCEPT !.closed = Append(@, app_name)]
    ELSE [out EXCEPT !.notices = Append(@, "Could not close")]

\* what the handle_speech of a handler other than the dictation handler
\* returns
T_handled == <<"h","a","n","d","l","e","d">>

\* _handler_chain[0].handle_speech(text): the dictation handler, or another
\* BaseSpeechHandler, which injects nothing and returns T_handled
invoke_handler(handler, text, state, last, sc, ok) ==
    IF handler = "DictationSpeechHandler"
    THEN [dictation_handle_speech(text, state, last, sc, ok) EXCEPT
             !.handlers = <<handler>>]
    ELSE [Quiet(T_handled, state, last) EXCEPT !.handlers = <<handler>>]

\* handle_chain delegating whatever the listening state is
handle_chain_ignoring_state(text, state, chain, last, sc, ok) ==
    LET text_lower == lower(text)
    IN  IF contains(text_lower, T_leah_stop)
        THEN Quiet(text, "STOPPED", last)
        ELSE IF contains(text_lower, T_leah_pause)
        THEN Quiet(text, "PAUSED", last)
        ELSE IF contains(text_lower, T_leah_resume)
        THEN Quiet(text, "LISTENING", last)
        ELSE IF contains(text_lower, T_leah_launch_)
        THEN Quiet(text, state, last)
        ELSE IF Len(chain) > 0
        THEN invoke_handler(chain[1], text, state, last, sc, ok)
        ELSE Quiet(text, state, last)

\* handle_chain without the try around the handler's call
handle_chain_not_catching(text, state, chain, last, sc, ok) ==
    LET text_lower == lower(text)
    IN  IF contains(text_lower, T_leah_stop)
        THEN Quiet(text, "STOPPED", last)
        ELSE IF contains(text_lower, T_leah_pause)
        THEN Quiet(text, "PAUSED", last)
        ELSE IF contains(text_lower, T_leah_resume)
        THEN Quiet(text, "LISTENING", last)
        ELSE IF contains(text_lower, T_leah_launch_)
        THEN LET app_name == strip(slice_from(text_lower, Len(T_leah_launch_)))
             IN  IF app_name # <<>>
                 THEN launch_application(app_name, Quiet(text, state, last), ok)
                 ELSE Quiet(text, state, last)
        ELSE IF state = "LISTENING" /\ Len(chain) > 0
        THEN invoke_handler(chain[1], text, state, last, sc, ok)
        ELSE Quiet(text, state, last)

\* DefaultSpeechHandler.handle_chain
handle_chain(text, state, chain, last, sc, ok) ==
    LET text_lower == lower(text)
    IN  IF contains(text_lower, T_leah_stop)
        THEN Quiet(text, "STOPPED", last)
        ELSE IF contains(text_lower, T_leah_pause)
        THEN Quiet(text, "PAUSED", last)
        ELSE IF contains(text_lower, T_leah_resume)
        THEN Quiet(text, "LISTENING", last)
        ELSE IF contains(text_lower, T_leah_launch_)
        THEN LET app_name == strip(slice_from(text_lower, Len(T_leah_launch_)))
             IN  IF app_name # <<>>
                 THEN launch_application(app_name, Quiet(text, state, last), ok)
                 ELSE Quiet(text, state, last)
        ELSE IF state = "LISTENING" /\ Len(chain) > 0
        THEN LET r == invoke_handler(chain[1], text, state, last, sc, ok)
             IN  IF r.raised
                 THEN [r EXCEPT !.ret = text, !.raised = FALSE,
                                !.notices = Append(@, "Error processing text")]
                 ELSE r
        ELSE Quiet(text, state, last)

\* the objects given to the chain's methods: two BaseSpeechHandler instances
\* and one object of another class
Handlers == {"DictationSpeechHandler", "OtherSpeechHandler"}
NotAHandler == "object"
ChainArguments == Handlers \cup {NotAHandler}

\* isinstance(handler, BaseSpeechHandler)
is_handler(handler) == handler \in Handlers

\* handler in self._handler_chain
in_chain(chain, handler) == \E i \in 1..Len(chain) : chain[i] = handler

\* list.remove: the first occurrence is taken out
remove_first(chain, handler) ==
    LET i == CHOOSE k \in 1..Len(chain) :
                 /\ chain[k] = handler
                 /\ \A j \in 1..(k - 1) : chain[j] # handler
    IN  SubSeq(chain, 1, i - 1) \o SubSeq(chain, i + 1, Len(chain))

\* add_to_handler_chain without the isinstance test
add_to_handler_chain_unchecked(chain, handler) ==
    [chain |-> Append(chain, handler), raised |-> "none"]

\* DefaultSpeechHandler.add_to_handler_chain
add_to_handler_chain(chain, handler) ==
    IF ~is_handler(handler)
    THEN [chain |-> chain, raised |-> "TypeError"]
    ELSE [chain |-> Append(chain, handler), raised |-> "none"]

\* DefaultSpeechHandler.remove_handler
remove_handler(chain, handler) ==
    IF in_chain(chain, handler)
    THEN [chain |-> remove_first(chain, handler), raised |-> "none"]
    ELSE [chain |-> chain, raised |-> "none"]

\* DefaultSpeechHandler.clear_handlers
clear_handlers(chain) == [chain |-> <<>>, raised |-> "none"]

\* DefaultSpeechHandler.handle_speech
default_handle_speech(text, state, chain, last, sc, ok) ==
    LET words   == split(lower(text))
        command == words[2]
        rest    == lower(join(SubSeq(words, 3, Len(words))))
    IN  IF ~is_command(words)
        THEN handle_chain(text, state, chain, last, sc, ok)
        ELSE IF command = W_stop   THEN Quiet(<<>>, "STOPPED", last)
        ELSE IF command = W_pause  THEN Quiet(<<>>, "PAUSED", last)
        ELSE IF command = W_resume THEN Quiet(<<>>, "LISTENING", last)
        ELSE IF command = W_launch /\ Len(words) > 2
        THEN launch_application(rest, Quiet(<<>>, state, last), ok)
        ELSE IF command = W_close
        THEN IF Len(words) > 2
             THEN close_application(rest, Quiet(<<>>, state, last), ok)
             ELSE [Quiet(<<>>, state, last) EXCEPT
                      !.keys = <<"alt+f4">>, !.raised = ~ok]
        ELSE IF command = W_press /\ Len(words) > 2 /\ words[3] = W_return
        THEN [Quiet(<<>>, state, last) EXCEPT
                 !.keys = <<"enter">>, !.raised = ~ok]
        ELSE handle_chain(text, state, chain, last, sc, ok)

---------------------------------------------------------------------------
(* leia.py: SpeechController                                               *)

\* Whether the adapter the controller constructs (AzureRecognizer, line 249)
\* has a set_paused method: neither it nor BaseRecognizer defines one.
RecognizerHasSetPaused == FALSE

\* recognizer.set_paused(flag): AttributeError when the method is missing
set_paused(flag, r) ==
    IF RecognizerHasSetPaused
    THEN [r EXCEPT !.hints = Append(@, flag)]
    ELSE [r EXCEPT !.raised = TRUE]

\* What one controller operation did: hints are the set_paused arguments,
\* button whether the toggle button's text was refreshed, dispatched whether
\* the dispatcher was called, out what the dispatcher did.
Result(cstate, dn, hstate, last) ==
    [controller_state |-> cstate, done |-> dn, raised |-> FALSE,
     hints |-> <<>>, button |-> FALSE, dispatched |-> FALSE,
     out |-> Quiet(<<>>, hstate, last)]

\* SpeechController.pause
pause(r) ==
    IF r.controller_state = "LISTENING"
    THEN set_paused(TRUE, [r EXCEPT !.controller_state = "PAUSED"])
    ELSE r

\* SpeechController.resume
resume(r) ==
    IF r.controller_state = "PAUSED"
    THEN set_paused(FALSE, [r EXCEPT !.controller_state = "LISTENING"])
    ELSE r

\* SpeechController.stop
stop(r) == [r EXCEPT !.done = TRUE]

\* lines 281-283: pass the text to the dispatcher while LISTENING
pass_to_handler(text, r, chain, sc, ok) ==
    IF r.raised \/ r.controller_state # "LISTENING" THEN r
    ELSE LET o == default_handle_speech(text, r.out.state, chain,
                                        r.out.last_text, sc, ok)
         IN  [r EXCEPT !.dispatched = TRUE, !.out = o, !.raised = o.raised]

\* window.update_button_text(), skipped when the call before it raised
update_button_text(r) == IF r.raised THEN r ELSE [r EXCEPT !.button = TRUE]

\* SpeechController.handle_speech
controller_handle_speech(text, r, chain, sc, ok) ==
    LET command_text == strip(lower(text))
    IN  IF command_text = T_leah_pause /\ r.controller_state = "LISTENING"
        THEN pass_to_handler(text, update_button_text(pause(r)), chain, sc, ok)
        ELSE IF command_text = T_leah_resume /\ r.controller_state = "PAUSED"
        THEN pass_to_handler(text, update_button_text(resume(r)), chain, sc, ok)
        ELSE IF command_text = T_leah_stop
        THEN stop(r)
        ELSE pass_to_handler(text, r, chain, sc, ok)

\* SplashScreen.toggle_state
toggle_state(r) ==
    IF r.controller_state = "LISTENING"
    THEN update_button_text(pause(r))
    ELSE update_button_text(resume(r))

---------------------------------------------------------------------------
(* Utterances                                                              *)

\* the most spaces an utterance carries before and after its words
MaxPadding == 1

T_Leah_Pause  == <<"L","e","a","h"," ","P","a","u","s","e">>

\* the text with one to MaxPadding spaces at each end
Padded(text) ==
    { [i \in 1..n |-> " "] \o text \o [i \in 1..n |-> " "] : n \in 1..MaxPadding }

T_hello_leah_stop == Utter(<<W_hello, W_leah, W_stop>>)
T_lea_dance   == Utter(<<W_lea, <<"d","a","n","c","e">>>>)
T_leah_hello_leah_stop == Utter(<<W_leah, W_hello, W_leah, W_stop>>)

\* "<wakeword> stop", "<wakeword> pause", "<wakeword> resume"
StateCommands ==
    {Utter(<<w, c>>) : w \in WakeWords, c \in {W_stop, W_pause, W_resume}}

\* "<wakeword> put period", "... put a period", "... put an period"
PutPeriodCommands ==
    {Utter(<<w, W_put, W_period>>) : w \in WakeWords}
    \cup {Utter(<<w, W_put, art, W_period>>) : w \in WakeWords, art \in {W_a, W_an}}

OtherCommands ==
    { Utter(<<W_leah, W_launch, W_notepad>>),
      Utter(<<W_lea, W_launch, W_zzzznotapp>>),
      Utter(<<W_leah, W_launch>>),
      Utter(<<W_leah, W_close>>),
      Utter(<<W_lea, W_close, W_notepad>>),
      Utter(<<W_leia, W_press, W_return>>),
      Utter(<<W_leah, W_press>>),
      Utter(<<W_lea, W_undo>>),
      T_lea_dance }

\* "<wakeword> launch zzzznotapp"
LaunchUnknownCommands ==
    {Utter(<<w, W_launch, W_zzzznotapp>>) : w \in WakeWords}

\* "<wakeword> undo"
UndoCommands == {Utter(<<w, W_undo>>) : w \in WakeWords}

PutCommands ==
    { Utter(<<W_lea, W_putz, W_a, W_comma>>),
      Utter(<<W_leah, W_puts, W_dash>>),
      Utter(<<W_laya, W_put, W_a, W_hello>>) }

PlainTexts == {W_hello, W_world, W_today, T_HelloWorld, T_well, T_and, T_why}

\* what the recognizer delivers to the controller
SessionUtterances ==
    StateCommands \cup OtherCommands
    \cup Padded(T_leah_stop)
    \cup {W_hello, W_today, T_Leah_Pause, T_hello_leah_stop,
          Utter(<<W_leah, W_put, W_a, W_period>>)}

\* what the dispatcher is called with
DispatchUtterances ==
    StateCommands \cup OtherCommands \cup PutPeriodCommands \cup PutCommands
    \cup LaunchUnknownCommands
    \cup Padded(W_today)
    \cup {W_hello, W_world, W_today, T_hello_leah_stop,
          T_leah_hello_leah_stop}

\* what the dictation handler is called with
DictationUtterances ==
    PlainTexts \cup Padded(W_today) \cup PutPeriodCommands \cup PutCommands
    \cup UndoCommands
    \cup {Utter(<<W_lea, W_undo>>), Utter(<<W_leah, W_undo, W_hello>>),
          T_lea_dance}

\* the scripted scenario, with any wake-word spelling in each command
Scenario ==
    << {W_hello},
       {Utter(<<w, W_pause>>) : w \in WakeWords},
       {W_world},
       {Utter(<<w, W_resume>>) : w \in WakeWords},
       {W_today} >>

---------------------------------------------------------------------------
(* State machine                                                           *)

\* the threads that call pause() and resume(): the window's main loop
\* (toggle_state) and the recognizer's callback (handle_speech)
Threads == {"surface", "callback"}

NoCall ==
    [op |-> "none", text |-> <<>>, ok |-> TRUE, handler |-> "none",
     pre |-> [controller_state |-> "LISTENING", handler_state |-> "LISTENING",
              last_text |-> <<>>, done |-> FALSE,
              handler_chain |-> <<"DictationSpeechHandler">>],
     res |-> Result("LISTENING", FALSE, "LISTENING", <<>>)]

\* the state after SpeechController.__init__ and start()
Init ==
    /\ controller_state = "LISTENING"
    /\ done = FALSE
    /\ recognizing = TRUE
    /\ window_open = TRUE
    /\ handler_state = "LISTENING"
    /\ handler_chain = <<"DictationSpeechHandler">>
    /\ last_text = <<>>
    /\ special_chars \in PhraseMaps
    /\ call = NoCall
    /\ script = [pos |-> 0, emissions |-> <<>>]
    /\ running = TRUE
    /\ injected = <<>>
    /\ vosk_running = FALSE
    /\ stream = "none"
    /\ audio_queue = 0
    /\ loop_pc = "not_started"
    /\ stop_pc = "not_called"
    /\ delivered = 0
    /\ callback_arg = [adapter |-> "none", text |-> <<>>]
    /\ pause_pc = [t \in Threads |-> "idle"]
    /\ pause_calls = [t \in Threads |-> 0]
    /\ paused_hint = "none"

\* the adapter's record of a set_paused argument
hint_name(flag) == IF flag THEN "True" ELSE "False"

Pre ==
    [controller_state |-> controller_state, handler_state |-> handler_state,
     last_text |-> last_text, done |-> done, handler_chain |-> handler_chain]

Now == Result(controller_state, done, handler_state, last_text)

Commit(op, text, ok, r) ==
    /\ controller_state' = r.controller_state
    /\ done' = r.done
    /\ handler_state' = r.out.state
    /\ last_text' = r.out.last_text
    /\ call' = [op |-> op, text |-> text, ok |-> ok, handler |-> "none",
                pre |-> Pre, res |-> r]
    /\ injected' = IF r.out.injected = <<>> THEN injected
                   ELSE <<r.out.injected[Len(r.out.injected)]>>
    /\ paused_hint' = IF r.hints = <<>> THEN paused_hint
                      ELSE hint_name(r.hints[Len(r.hints)])
    /\ UNCHANGED <<handler_chain, special_chars, running, vosk_vars,
                   pause_pc, pause_calls>>

\* no operation is between its call and its return
Idle == call.op = "none"

\* the operation returns to its caller
Return ==
    /\ ~Idle
    /\ call' = NoCall
    /\ UNCHANGED <<controller_state, done, recognizing, window_open,
                   handler_state, handler_chain, last_text, special_chars,
                   script, running, injected, vosk_vars, pause_vars>>

\* the recognizer's callback delivers one utterance to the controller
HandleSpeech(text, ok) ==
    /\ Idle
    /\ running
    /\ recognizing
    /\ Commit("handle_speech", text, ok,
              controller_handle_speech(text, Now, handler_chain, special_chars, ok))
    /\ UNCHANGED <<recognizing, window_open, script>>

\* the toggle button of the control window
ToggleState ==
    /\ Idle
    /\ window_open
    /\ Commit("toggle_state", <<>>, TRUE, toggle_state(Now))
    /\ UNCHANGED <<recognizing, window_open, script>>

\* SpeechController.pause() called on the controller
Pause ==
    /\ Idle
    /\ running
    /\ Commit("pause", <<>>, TRUE, pause(Now))
    /\ UNCHANGED <<recognizing, window_open, script>>

\* SpeechController.resume() called on the controller
Resume ==
    /\ Idle
    /\ running
    /\ Commit("resume", <<>>, TRUE, resume(Now))
    /\ UNCHANGED <<recognizing, window_open, script>>

\* the stop button of the control window: controller.stop(), root.quit()
StopApp ==
    /\ Idle
    /\ window_open
    /\ Commit("stop_app", <<>>, TRUE, stop(Now))
    /\ window_open' = FALSE
    /\ UNCHANGED <<recognizing, script>>

\* run_recognition: done.wait() returned, recognizer.stop()
RecognizerStop ==
    /\ Idle
    /\ running
    /\ done
    /\ recognizing
    /\ recognizing' = FALSE
    /\ UNCHANGED <<controller_state, done, window_open, handler_state,
                   handler_chain, last_text, special_chars, call, script,
                   running, injected, vosk_vars, pause_vars>>

\* main() returns once the window's main loop has ended (root.quit()); the
\* recognition thread is a daemon thread and ends with the process
ProcessExit ==
    /\ Idle
    /\ running
    /\ ~window_open
    /\ running' = FALSE
    /\ UNCHANGED <<controller_state, done, recognizing, window_open,
                   handler_state, handler_chain, last_text, special_chars,
                   call, script, injected, vosk_vars, pause_vars>>

Next ==
    \/ \E text \in SessionUtterances, ok \in BOOLEAN : HandleSpeech(text, ok)
    \/ ToggleState
    \/ Pause
    \/ Resume
    \/ StopApp
    \/ RecognizerStop
    \/ ProcessExit
    \/ Return

Spec == Init /\ [][Next]_vars

\* The scenario monitor: on the script while the utterances dispatched since
\* construction are its first ones and every automation call succeeded.
next_script(text, ok, ret) ==
    IF /\ script.pos >= 0
       /\ script.pos < Len(Scenario)
       /\ ok
       /\ text \in Scenario[script.pos + 1]
    THEN [pos |-> script.pos + 1, emissions |-> Append(script.emissions, ret)]
    ELSE [pos |-> -1, emissions |-> <<>>]

\* DefaultSpeechHandler.handle_speech called on its own
Dispatch(text, ok) ==
    LET o == default_handle_speech(text, handler_state, handler_chain,
                                   last_text, special_chars, ok)
    IN  /\ Idle
        /\ Commit("dispatch", text, ok,
                  [Now EXCEPT !.dispatched = TRUE, !.out = o, !.raised = o.raised])
        /\ script' = next_script(text, ok, o.ret)
        /\ UNCHANGED <<recognizing, window_open>>

NextDispatch ==
    \/ \E text \in DispatchUtterances, ok \in BOOLEAN : Dispatch(text, ok)
    \/ Return

SpecDispatch == Init /\ [][NextDispatch]_vars

\* DictationSpeechHandler.handle_speech called on its own
Dictate(text, ok) ==
    LET o == dictation_handle_speech(text, handler_state, last_text,
                                     special_chars, ok)
    IN  /\ Idle
        /\ Commit("dictate", text, ok,
                  [Now EXCEPT !.out = o, !.raised = o.raised])
        /\ UNCHANGED <<recognizing, window_open, script>>

NextDictation ==
    \/ \E text \in DictationUtterances, ok \in BOOLEAN : Dictate(text, ok)
    \/ Return

SpecDictation == Init /\ [][NextDictation]_vars

\* ---------------------------------------------------------------------
\* The dispatcher with its chain changed between utterances

\* the greatest length of the chain
MaxChain == 2

\* the utterances given to the dispatcher while its chain changes
ChainUtterances ==
    {W_hello, T_HelloWorld, T_hello_leah_stop, T_leah_pause, T_leah_resume,
     T_lea_dance}

\* a method of the chain returns or raises: only the chain has changed
Mutate(op, handler, r) ==
    /\ handler_chain' = r.chain
    /\ call' = [op |-> op, text |-> <<>>, ok |-> TRUE, handler |-> handler,
                pre |-> Pre, res |-> [Now EXCEPT !.raised = r.raised # "none"]]
    /\ UNCHANGED <<controller_state, done, recognizing, window_open,
                   handler_state, last_text, special_chars, script, running,
                   injected, vosk_vars, pause_vars>>

AddHandler(handler) ==
    /\ Idle
    /\ Len(handler_chain) < MaxChain
    /\ Mutate("add", handler, add_to_handler_chain(handler_chain, handler))

RemoveHandler(handler) ==
    /\ Idle
    /\ Mutate("remove", handler, remove_handler(handler_chain, handler))

ClearHandlers ==
    /\ Idle
    /\ Mutate("clear", "none", clear_handlers(handler_chain))

NextChain ==
    \/ \E handler \in ChainArguments : AddHandler(handler)
    \/ \E handler \in ChainArguments : RemoveHandler(handler)
    \/ ClearHandlers
    \/ \E text \in ChainUtterances, ok \in BOOLEAN : Dispatch(text, ok)
    \/ Return

SpecChain == Init /\ [][NextChain]_vars

---------------------------------------------------------------------------
(* leia.py: pause() and resume() statement by statement, on two threads    *)

\* the most pause() and resume() calls one thread makes
MaxCalls == 2

\* what these steps leave alone
pause_frame ==
    <<done, recognizing, window_open, handler_state, handler_chain, last_text,
      special_chars, call, script, running, injected, vosk_vars>>

\* toggle_state (line 198) or handle_speech (line 271) finds the state
\* LISTENING and calls pause()
EnterPause(t) ==
    /\ pause_pc[t] = "idle"
    /\ pause_calls[t] < MaxCalls
    /\ controller_state = "LISTENING"
    /\ pause_pc' = [pause_pc EXCEPT ![t] = "pause_test"]
    /\ pause_calls' = [pause_calls EXCEPT ![t] = @ + 1]
    /\ UNCHANGED <<controller_state, paused_hint, pause_frame>>

\* toggle_state (line 201) or handle_speech (line 274) finds the state
\* PAUSED and calls resume()
EnterResume(t) ==
    /\ pause_pc[t] = "idle"
    /\ pause_calls[t] < MaxCalls
    /\ controller_state = "PAUSED"
    /\ pause_pc' = [pause_pc EXCEPT ![t] = "resume_test"]
    /\ pause_calls' = [pause_calls EXCEPT ![t] = @ + 1]
    /\ UNCHANGED <<controller_state, paused_hint, pause_frame>>

\* pause(), line 314: if self.state == ListeningState.LISTENING
PauseTest(t) ==
    /\ pause_pc[t] = "pause_test"
    /\ pause_pc' = [pause_pc EXCEPT ![t] =
                        IF controller_state = "LISTENING"
                        THEN "pause_assign" ELSE "idle"]
    /\ UNCHANGED <<controller_state, pause_calls, paused_hint, pause_frame>>

\* pause(), line 315
PauseAssign(t) ==
    /\ pause_pc[t] = "pause_assign"
    /\ controller_state' = "PAUSED"
    /\ pause_pc' = [pause_pc EXCEPT ![t] = "pause_hint"]
    /\ UNCHANGED <<pause_calls, paused_hint, pause_frame>>

\* pause(), line 316: the hint, or AttributeError, ends the call
PauseHint(t) ==
    /\ pause_pc[t] = "pause_hint"
    /\ paused_hint' = IF RecognizerHasSetPaused THEN hint_name(TRUE)
                      ELSE paused_hint
    /\ pause_pc' = [pause_pc EXCEPT ![t] = "idle"]
    /\ UNCHANGED <<controller_state, pause_calls, pause_frame>>

\* resume(), line 320: if self.state == ListeningState.PAUSED
ResumeTest(t) ==
    /\ pause_pc[t] = "resume_test"
    /\ pause_pc' = [pause_pc EXCEPT ![t] =
                        IF controller_state = "PAUSED"
                        THEN "resume_assign" ELSE "idle"]
    /\ UNCHANGED <<controller_state, pause_calls, paused_hint, pause_frame>>

\* resume(), line 321
ResumeAssign(t) ==
    /\ pause_pc[t] = "resume_assign"
    /\ controller_state' = "LISTENING"
    /\ pause_pc' = [pause_pc EXCEPT ![t] = "resume_hint"]
    /\ UNCHANGED <<pause_calls, paused_hint, pause_frame>>

\* resume(), line 322: the hint, or AttributeError, ends the call
ResumeHint(t) ==
    /\ pause_pc[t] = "resume_hint"
    /\ paused_hint' = IF RecognizerHasSetPaused THEN hint_name(FALSE)
                      ELSE paused_hint
    /\ pause_pc' = [pause_pc EXCEPT ![t] = "idle"]
    /\ UNCHANGED <<controller_state, pause_calls, pause_frame>>

NextPause ==
    \E t \in Threads :
        \/ EnterPause(t)
        \/ EnterResume(t)
        \/ PauseTest(t)
        \/ PauseAssign(t)
        \/ PauseHint(t)
        \/ ResumeTest(t)
        \/ ResumeAssign(t)
        \/ ResumeHint(t)

SpecPause == Init /\ [][NextPause]_vars

---------------------------------------------------------------------------
(* recognizers/vosk_recognizer.py: start() on one thread, stop() on another *)

\* the most audio blocks waiting in audio_queue
MaxQueue == 2

\* the most callback invocations followed
MaxDelivered == 2

\* the texts a recognition engine hands to its adapter
RecognizedTexts == {<<>>, <<" ">>, W_hello}

\* what one audio block makes of the recognizer: AcceptWaveform false, or
\* true with the dictionary of Result()
WaveformResults ==
    {[accepted |-> FALSE]}
    \cup {[accepted |-> TRUE, text |-> t] : t \in RecognizedTexts}

\* the dictionary of FinalResult()
FinalResults == {[text |-> t] : t \in RecognizedTexts}

\* _handle_result: the callback is called with a text that is not blank
calls_back(result) ==
    "text" \in DOMAIN result /\ strip(result.text) # <<>>

\* start(), lines 66-69: return when running, else set _running
VoskStart ==
    /\ loop_pc = "not_started"
    /\ IF vosk_running
       THEN loop_pc' = "returned" /\ UNCHANGED vosk_running
       ELSE loop_pc' = "open_stream" /\ vosk_running' = TRUE
    /\ UNCHANGED <<stream, audio_queue, stop_pc, delivered, callback_arg,
                   session_vars, pause_vars>>

\* start(), lines 70-77: create and start the input stream
VoskOpenStream ==
    /\ loop_pc = "open_stream"
    /\ stream' = "active"
    /\ loop_pc' = "test"
    /\ UNCHANGED <<vosk_running, audio_queue, stop_pc, delivered, callback_arg,
                   session_vars, pause_vars>>

\* audio_callback, called by the stream's thread with one block
AudioCallback ==
    /\ stream = "active"
    /\ audio_queue < MaxQueue
    /\ audio_queue' = audio_queue + 1
    /\ UNCHANGED <<vosk_running, stream, loop_pc, stop_pc, delivered, callback_arg,
                   session_vars, pause_vars>>

\* start(), line 79: while self._running
VoskLoopTest ==
    /\ loop_pc = "test"
    /\ loop_pc' = IF vosk_running THEN "get" ELSE "returned"
    /\ UNCHANGED <<vosk_running, stream, audio_queue, stop_pc, delivered, callback_arg,
                   session_vars, pause_vars>>

\* start(), lines 81-84: the blocking get, AcceptWaveform, _handle_result up
\* to the call of the callback
VoskGet(result) ==
    /\ loop_pc = "get"
    /\ audio_queue > 0
    /\ audio_queue' = audio_queue - 1
    /\ IF result.accepted /\ calls_back(result)
       THEN /\ delivered < MaxDelivered
            /\ delivered' = delivered + 1
            /\ callback_arg' = [adapter |-> "vosk", text |-> result.text]
            /\ loop_pc' = "callback"
       ELSE /\ loop_pc' = "test"
            /\ UNCHANGED <<delivered, callback_arg>>
    /\ UNCHANGED <<vosk_running, stream, stop_pc, session_vars, pause_vars>>

\* the callback called at line 84 returns, or raises (caught at line 85)
VoskCallbackReturn ==
    /\ loop_pc = "callback"
    /\ loop_pc' = "test"
    /\ UNCHANGED <<vosk_running, stream, audio_queue, stop_pc, delivered, callback_arg,
                   session_vars, pause_vars>>

\* stop(), line 91, called once start() has been called
VoskStop ==
    /\ stop_pc = "not_called"
    /\ loop_pc # "not_started"
    /\ vosk_running' = FALSE
    /\ stop_pc' = "close_stream"
    /\ UNCHANGED <<stream, audio_queue, loop_pc, delivered, callback_arg,
                   session_vars, pause_vars>>

\* stop(), lines 92-95: stop and close the stream if there is one
VoskCloseStream ==
    /\ stop_pc = "close_stream"
    /\ stream' = "none"
    /\ stop_pc' = "final"
    /\ UNCHANGED <<vosk_running, audio_queue, loop_pc, delivered, callback_arg,
                   session_vars, pause_vars>>

\* stop(), lines 98-99: FinalResult and _handle_result up to the callback
VoskFinalResult(result) ==
    /\ stop_pc = "final"
    /\ IF calls_back(result)
       THEN /\ delivered < MaxDelivered
            /\ delivered' = delivered + 1
            /\ callback_arg' = [adapter |-> "vosk", text |-> result.text]
            /\ stop_pc' = "callback"
       ELSE /\ stop_pc' = "returned"
            /\ UNCHANGED <<delivered, callback_arg>>
    /\ UNCHANGED <<vosk_running, stream, audio_queue, loop_pc, session_vars,
                   pause_vars>>

\* the callback called at line 99 returns and stop() with it
VoskStopReturn ==
    /\ stop_pc = "callback"
    /\ stop_pc' = "returned"
    /\ UNCHANGED <<vosk_running, stream, audio_queue, loop_pc, delivered, callback_arg,
                   session_vars, pause_vars>>

NextVosk ==
    \/ VoskStart
    \/ VoskOpenStream
    \/ AudioCallback
    \/ VoskLoopTest
    \/ \E result \in WaveformResults : VoskGet(result)
    \/ VoskCallbackReturn
    \/ VoskStop
    \/ VoskCloseStream
    \/ \E result \in FinalResults : VoskFinalResult(result)
    \/ VoskStopReturn

SpecVosk == Init /\ [][NextVosk]_vars

---------------------------------------------------------------------------
(* recognizers/azure_recognizer.py                                         *)

\* the recognized events of the speech SDK: the reason and text of evt.result
AzureEvents ==
    [reason : {"RecognizedSpeech", "NoMatch", "Canceled"},
     text : RecognizedTexts]

\* AzureRecognizer._handle_result, connected to the recognized signal
AzureHandleResult(evt) ==
    /\ recognizing
    /\ callback_arg' = IF evt.reason = "RecognizedSpeech"
                       THEN [adapter |-> "azure", text |-> evt.text]
                       ELSE callback_arg
    /\ UNCHANGED <<vosk_running, stream, audio_queue, loop_pc, stop_pc,
                   delivered, session_vars, pause_vars>>

\* both adapters, each with its own engine
NextAdapters ==
    \/ NextVosk
    \/ \E evt \in AzureEvents : AzureHandleResult(evt)

SpecAdapters == Init /\ [][NextAdapters]_vars

---------------------------------------------------------------------------
(* Claims                                                                  *)

StopCommands == {Utter(<<w, W_stop>>) : w \in WakeWords}

PutAPeriodCommands == {Utter(<<w, W_put, W_a, W_period>>) : w \in WakeWords}

SentenceEnd == {".", "!", "?"}

ends_in(s, chars) == s # <<>> /\ last_char(s) \in chars

\* C1: an utterance delivered to the controller while the dispatcher is
\* Paused or Stopped, or the controller is Paused, never reaches the
\* dictation handler and injects no text.
C1_NoDictationUnlessListening ==
    ( /\ call.op = "handle_speech"
      /\ \/ call.pre.handler_state \in {"PAUSED", "STOPPED"}
         \/ call.pre.controller_state = "PAUSED" )
    => /\ call.res.out.dictated = 0
       /\ call.res.out.typed = <<>>

\* C1 witness: "hello" reaches the dispatcher while it is Paused
C1_Witness ==
    /\ call.op = "handle_speech"
    /\ call.text = W_hello
    /\ call.pre.handler_state = "PAUSED"
    /\ call.res.dispatched
    /\ call.res.out.ret = W_hello

\* C2: "<wakeword> stop", with any accepted spelling and from any dispatcher
\* state but Stopped, leaves the dispatcher Stopped, returns "" and neither
\* invokes a handler of the chain nor injects text.
C2_StopCommand ==
    ( /\ call.op = "dispatch"
      /\ call.text \in StopCommands
      /\ call.pre.handler_state # "STOPPED" )
    => /\ handler_state = "STOPPED"
       /\ call.res.out.ret = <<>>
       /\ ~call.res.raised
       /\ call.res.out.dictated = 0
       /\ call.res.out.typed = <<>>
       /\ call.res.out.keys = <<>>

\* C2 witness: "lejah stop" dispatched while Paused
C2_Witness ==
    /\ call.op = "dispatch"
    /\ call.text = Utter(<<W_lejah, W_stop>>)
    /\ call.pre.handler_state = "PAUSED"
    /\ handler_state = "STOPPED"

\* C3: Stopped is absorbing, a pause takes effect only from Listening and a
\* resume only from Paused: no utterance moves the dispatcher out of Stopped,
\* into Paused from anything but Listening, or into Listening from anything
\* but Paused.
C3_InvalidTransitionsAreNoOps ==
    call.op = "handle_speech"
    => /\ call.pre.handler_state = "STOPPED" => handler_state = "STOPPED"
       /\ ( handler_state = "PAUSED" /\ call.pre.handler_state # "PAUSED" )
            => call.pre.handler_state = "LISTENING"
       /\ ( handler_state = "LISTENING" /\ call.pre.handler_state # "LISTENING" )
            => call.pre.handler_state = "PAUSED"

\* C4: a "<wakeword> stop" utterance delivered to the controller, with any
\* accepted spelling, or the control surface's stop sets the shutdown event,
\* and no operation clears it.
C4_StopSetsDone ==
    /\ ( call.op = "handle_speech" /\ call.text \in StopCommands ) => done
    /\ call.op = "stop_app" => done
    /\ ( call.op # "none" /\ call.pre.done ) => done

\* C5: after every utterance callback and every pause or resume from the
\* control surface, the controller is Paused exactly when the dispatcher is.
C5_StatesConsistent ==
    call.op \in {"handle_speech", "toggle_state"}
    => ( controller_state = "PAUSED" <=> handler_state = "PAUSED" )

\* C6: from Listening with empty last text, dispatching "hello",
\* "<wakeword> pause", "world", "<wakeword> resume", "today." yields the
\* emissions "hello", "", "", "", " today.".
C6_Scenario ==
    script.pos = Len(Scenario)
    => script.emissions = <<W_hello, <<>>, <<>>, <<>>, <<" ">> \o W_today>>

starts_with_punctuation(text, sc) ==
    /\ text # <<>>
    /\ \/ text[1] \in {",", ":", ";"}
       \/ \E k \in DOMAIN sc :
              Len(sc[k]) <= Len(text) /\ SubSeq(text, 1, Len(sc[k])) = sc[k]

\* C8: when the last emitted text ends in an alphanumeric character, a
\* dictated text is emitted with exactly one space prefixed unless it starts
\* with ',', ':', ';' or a mapped punctuation literal, and then unchanged.
C8_SpacingLaw ==
    ( /\ call.op = "dictate"
      /\ call.ok
      /\ ~is_undo(call.text)
      /\ ~is_put(call.text)
      /\ call.pre.last_text # <<>>
      /\ isalnum(last_char(call.pre.last_text)) )
    => call.res.out.ret =
          IF starts_with_punctuation(call.text, special_chars)
          THEN call.text
          ELSE <<" ">> \o call.text

has_period(sc) == W_period \in DOMAIN sc /\ sc[W_period] = <<".">>

\* C9 as claimed: with "period" mapped to ".", "<wakeword> put a period"
\* dispatched in Listening emits exactly "." whatever the last emitted text.
C9_PutAPeriodAlwaysBare ==
    ( /\ call.op = "dispatch"
      /\ call.text \in PutAPeriodCommands
      /\ call.pre.handler_state = "LISTENING"
      /\ has_period(special_chars) )
    => /\ call.res.out.typed = << <<".">> >>
       /\ call.ok => call.res.out.ret = <<".">>

\* C9 as amended: with "period" mapped to ".", "<wakeword> put a period"
\* dispatched in Listening hands exactly "." to text injection, and returns
\* it when the injection succeeds, unless the last emitted text, trailing
\* whitespace aside, ends in '.', '!' or '?'; then it is " .".
C9_PutAPeriod ==
    ( /\ call.op = "dispatch"
      /\ call.text \in PutAPeriodCommands
      /\ call.pre.handler_state = "LISTENING"
      /\ has_period(special_chars) )
    => LET emitted == IF ends_in(strip(call.pre.last_text), SentenceEnd)
                      THEN <<" ", ".">>
                      ELSE <<".">>
       IN  /\ call.res.out.typed = <<emitted>>
           /\ call.ok => ( call.res.out.ret = emitted /\ last_text = emitted )

\* C9 witness: "laya put a period" after "hello"
C9_Witness ==
    /\ call.op = "dispatch"
    /\ call.text = Utter(<<W_laya, W_put, W_a, W_period>>)
    /\ call.pre.handler_state = "LISTENING"
    /\ call.pre.last_text = W_hello
    /\ has_period(special_chars)
    /\ call.res.out.ret = <<".">>

\* C10: for a phrase of the phrase map, "<wakeword> put p", "... put a p" and
\* "... put an p" all select the mapped literal as the text to emit.
C10_ArticleOptional ==
    ( /\ call.op = "dictate"
      /\ call.text \in PutPeriodCommands
      /\ W_period \in DOMAIN special_chars )
    => put_text(call.text, special_chars) = special_chars[W_period]

\* C11: a put command whose phrase is not in the phrase map injects and
\* returns the empty string, whatever last_text is.
C11_UnmappedPutEmitsNothing ==
    ( /\ call.op = "dictate"
      /\ call.ok
      /\ is_put(call.text)
      /\ put_phrase(call.text) \notin DOMAIN special_chars )
    => /\ call.res.out.typed = << <<>> >>
       /\ call.res.out.ret = <<>>

\* "<wakeword> pause" and "<wakeword> resume", as the controller and the
\* dispatcher compare them
PauseCommands  == {Utter(<<w, W_pause>>) : w \in WakeWords}
ResumeCommands == {Utter(<<w, W_resume>>) : w \in WakeWords}

\* the operation observed is a pause (resume) by utterance or by method
is_pause_request ==
    \/ call.op = "pause"
    \/ call.op = "handle_speech" /\ strip(lower(call.text)) \in PauseCommands
is_resume_request ==
    \/ call.op = "resume"
    \/ call.op = "handle_speech" /\ strip(lower(call.text)) \in ResumeCommands

\* the operation observed changed no state copy and had no side effect
no_effect ==
    /\ call.res.controller_state = call.pre.controller_state
    /\ call.res.out.state = call.pre.handler_state
    /\ call.res.out.last_text = call.pre.last_text
    /\ call.res.hints = <<>>
    /\ call.res.out.typed = <<>>
    /\ ~call.res.raised

\* C12: a resume while the session is Listening (both copies LISTENING) and
\* a pause while it is Paused (a copy is PAUSED) change neither state copy
\* and have no side effect.
C12_Idempotence ==
    /\ ( /\ is_resume_request
         /\ call.pre.controller_state = "LISTENING"
         /\ call.pre.handler_state = "LISTENING" ) => no_effect
    /\ ( /\ is_pause_request
         /\ \/ call.pre.controller_state = "PAUSED"
            \/ call.pre.handler_state = "PAUSED" ) => no_effect
\* the first token of the utterance is a wake-word spelling
wake_word_first(text) ==
    LET words == split(lower(text))
    IN  Len(words) >= 1 /\ words[1] \in WakeWords

\* C13: an utterance whose first token is not a wake-word spelling never
\* changes the listening state and never launches an application.
C13_WakeWordFirst ==
    ( /\ call.op = "dispatch"
      /\ ~wake_word_first(call.text) )
    => /\ call.res.out.state = call.pre.handler_state
       /\ call.res.out.launched = <<>>
\* launch, close and press-return commands
ActionCommands ==
    { Utter(<<W_leah, W_launch, W_notepad>>),
      Utter(<<W_lea, W_close, W_notepad>>),
      Utter(<<W_leah, W_close>>),
      Utter(<<W_leia, W_press, W_return>>) }

\* what a command does besides changing the listening state
effect(r) ==
    [done |-> r.done, launched |-> r.out.launched, closed |-> r.out.closed,
     keys |-> r.out.keys]

\* C14: a launch, close, press-return or stop command delivered while the
\* controller is PAUSED has the effect it has while LISTENING, and a resume
\* command makes the controller LISTENING.
C14_CommandsWhilePaused ==
    ( /\ call.op = "handle_speech"
      /\ call.ok
      /\ call.pre.controller_state = "PAUSED" )
    => /\ call.text \in ActionCommands \cup StopCommands
          => effect(call.res) =
             effect(controller_handle_speech(
                        call.text,
                        Result("LISTENING", call.pre.done,
                               call.pre.handler_state, call.pre.last_text),
                        handler_chain, special_chars, call.ok))
       /\ call.text \in ResumeCommands
          => call.res.controller_state = "LISTENING"
\* the utterance is "<wakeword> launch <alias>"
is_launch(text) ==
    LET words == split(lower(text))
    IN  is_command(words) /\ Len(words) > 2 /\ words[2] = W_launch

\* C15: "<wakeword> launch <alias>" with an alias that is not found returns
\* "", prints exactly one failure notice, raises nothing, leaves the
\* listening state and last_text as they were and does not call the
\* dictation handler.
C15_UnknownAlias ==
    ( /\ call.op = "dispatch"
      /\ is_launch(call.text)
      /\ ~call.ok )
    => /\ call.res.out.ret = <<>>
       /\ call.res.out.notices = <<"Could not find application">>
       /\ ~call.res.out.raised
       /\ call.res.out.launched = <<>>
       /\ call.res.out.state = call.pre.handler_state
       /\ call.res.out.last_text = call.pre.last_text
       /\ call.res.out.dictated = 0
       /\ call.res.out.typed = <<>>

\* C15 witness: "laya launch zzzznotapp" while PAUSED after "hello"
C15_Witness ==
    /\ call.op = "dispatch"
    /\ call.text = Utter(<<W_laya, W_launch, W_zzzznotapp>>)
    /\ ~call.ok
    /\ call.pre.handler_state = "PAUSED"
    /\ call.pre.last_text = W_hello
    /\ call.res.out.notices = <<"Could not find application">>
    /\ last_text = W_hello
    /\ handler_state = "PAUSED"
\* C16: whatever automation call fails, DefaultSpeechHandler.handle_speech
\* returns normally: no exception leaves it.
C16_NoFailureEscapes ==
    call.op = "dispatch" => ~call.res.out.raised
\* C17: last_text is "" while no text has been injected, and otherwise the
\* argument of the latest successful typewrite; an operation that injects
\* nothing (suppressed utterance, dispatcher command, undo, failed injection)
\* leaves it unchanged.
C17_LastTextIsLastInjection ==
    /\ last_text = IF injected = <<>> THEN <<>> ELSE injected[1]
    /\ ( call.op # "none" /\ call.res.out.injected = <<>> )
       => last_text = call.pre.last_text

\* C17 witness: "lea undo" after "hello" was injected
C17_Witness ==
    /\ call.op = "handle_speech"
    /\ call.text = Utter(<<W_lea, W_undo>>)
    /\ call.res.out.keys = <<"ctrl+z">>
    /\ call.pre.last_text = W_hello
    /\ injected = <<W_hello>>
    /\ last_text = W_hello
\* C18: once SpeechController.stop() has been called, the session calls
\* recognizer.stop(): a session that has ended after stop() has called it.
C18_StopReachesRecognizer ==
    (done /\ ~running) => ~recognizing
\* the invocations of the callback that have not returned
in_flight ==
    (IF loop_pc = "callback" THEN 1 ELSE 0)
    + (IF stop_pc = "callback" THEN 1 ELSE 0)

\* C19: with start() on one thread and stop() on another, at most one
\* invocation of the callback is in flight at any time.
C19_SingleCallbackInFlight == in_flight <= 1

\* C20: once stop() has returned, the loop of start() invokes the callback
\* no more.
C20_NoCallbackAfterStop ==
    [][ stop_pc = "returned" => (loop_pc' = "callback" => loop_pc = "callback") ]_vars
\* C21: an adapter never invokes the callback with an empty or
\* whitespace-only text.
C21_CallbackTextNotBlank ==
    callback_arg.adapter # "none" => strip(callback_arg.text) # <<>>
\* C22: an utterance delivered to SpeechController.handle_speech after
\* stop() has returned injects no text, launches and closes no application
\* and changes no listening state.
C22_NothingAfterStop ==
    ( /\ call.op = "handle_speech"
      /\ call.pre.done )
    => /\ call.res.out.typed = <<>>
       /\ call.res.out.launched = <<>>
       /\ call.res.out.closed = <<>>
       /\ call.res.controller_state = call.pre.controller_state
       /\ call.res.out.state = call.pre.handler_state
\* the second tokens default.py treats as commands
CommandWords == {W_stop, W_pause, W_resume, W_launch, W_close, W_press}

\* a wake word, then a token that is no command, or launch or press alone
falls_through(text) ==
    LET words == split(lower(text))
    IN  /\ is_command(words)
        /\ \/ words[2] \notin CommandWords
           \/ words[2] \in {W_launch, W_press} /\ Len(words) = 2

\* C23: in state LISTENING such an utterance is given whole to the
\* dictation handler, which acts on it as if called directly; the state is
\* unchanged and nothing is raised.
C23_FallThrough ==
    ( /\ call.op = "dispatch"
      /\ call.ok
      /\ call.pre.handler_state = "LISTENING"
      /\ falls_through(call.text) )
    => LET d == dictation_handle_speech(call.text, "LISTENING",
                                        call.pre.last_text, special_chars, TRUE)
       IN  /\ call.res.out.dictated = 1
           /\ call.res.out.typed = d.typed
           /\ call.res.out.keys = d.keys
           /\ call.res.out.last_text = d.last_text
           /\ call.res.out.state = "LISTENING"
           /\ call.res.out.launched = <<>>
           /\ ~call.res.out.raised
\* the recognised dispatcher commands among the session's utterances
RecognisedCommands == StateCommands \cup ActionCommands

\* the dispatcher acted on the command, once
acted_once(text, out) ==
    LET words == split(lower(text))
    IN  /\ words[2] = W_stop   => out.state = "STOPPED"
        /\ words[2] = W_pause  => out.state = "PAUSED"
        /\ words[2] = W_resume => out.state = "LISTENING"
        /\ words[2] = W_launch => Len(out.launched) + Len(out.notices) = 1
        /\ words[2] = W_close /\ Len(words) > 2
               => Len(out.closed) + Len(out.notices) = 1
        /\ words[2] = W_close /\ Len(words) = 2 => out.keys = <<"alt+f4">>
        /\ words[2] = W_press  => out.keys = <<"enter">>

\* C24: a recognised dispatcher command delivered to
\* SpeechController.handle_speech in state LISTENING is acted on once within
\* the call, the dispatcher returns "", and the dictation handler is not
\* reached.
C24_CommandsActedOnce ==
    ( /\ call.op = "handle_speech"
      /\ call.ok
      /\ call.pre.controller_state = "LISTENING"
      /\ call.text \in RecognisedCommands )
    => /\ call.res.dispatched
       /\ ~call.res.raised
       /\ call.res.out.ret = <<>>
       /\ call.res.out.dictated = 0
       /\ acted_once(call.text, call.res.out)
\* C25: "<wakeword> undo", two tokens, sends the undo shortcut once,
\* returns "", injects nothing and leaves last_text as it was; with a further
\* token the utterance is not an undo.
C25_Undo ==
    ( /\ call.op = "dictate"
      /\ call.ok )
    => LET words == split(lower(call.text))
       IN  /\ ( Len(words) = 2 /\ words[1] \in WakeWords /\ words[2] = W_undo )
              => /\ call.res.out.keys = <<"ctrl+z">>
                 /\ call.res.out.ret = <<>>
                 /\ call.res.out.typed = <<>>
                 /\ call.res.out.last_text = call.pre.last_text
           /\ Len(words) > 2 => call.res.out.keys = <<>>

\* C25 witness: "layah undo" after "hello"
C25_Witness ==
    /\ call.op = "dictate"
    /\ call.ok
    /\ call.text = Utter(<<W_layah, W_undo>>)
    /\ call.pre.last_text = W_hello
    /\ call.res.out.keys = <<"ctrl+z">>
    /\ last_text = W_hello

\* C25 witness of the second half: "leah undo hello" is typed
C25_WitnessExtraToken ==
    /\ call.op = "dictate"
    /\ call.ok
    /\ call.text = Utter(<<W_leah, W_undo, W_hello>>)
    /\ call.res.out.typed # <<>>
\* the text with its first character upper-cased and the rest untouched
upper_first(s) ==
    [i \in DOMAIN s |-> IF i = 1 THEN upper_char(s[i]) ELSE s[i]]

\* C26: the text injected for a dictation utterance that is neither undo nor
\* put is the utterance itself, at most with one space before it and its
\* first letter upper-cased.
C26_CasingPreserved ==
    ( /\ call.op = "dictate"
      /\ call.ok
      /\ ~is_undo(call.text)
      /\ ~is_put(call.text) )
    => call.res.out.typed \in
           { <<call.text>>, <<upper_first(call.text)>>,
             << <<" ">> \o call.text >>, << <<" ">> \o upper_first(call.text) >> }
\* C27: while last_text is "", a dictation utterance that is neither undo
\* nor put is injected and returned as received, and becomes last_text.
C27_EmptyLastTextPassThrough ==
    ( /\ call.op = "dictate"
      /\ call.ok
      /\ call.pre.last_text = <<>>
      /\ ~is_undo(call.text)
      /\ ~is_put(call.text) )
    => /\ call.res.out.typed = <<call.text>>
       /\ call.res.out.ret = call.text
       /\ call.res.out.last_text = call.text
       /\ last_text = call.text

\* C27 witness: "hello" typed as it is while last_text is ""
C27_Witness ==
    /\ call.op = "dictate"
    /\ call.ok
    /\ call.pre.last_text = <<>>
    /\ call.text = W_hello
    /\ call.res.out.typed = <<W_hello>>
    /\ last_text = W_hello

\* C27 witness of an empty emission: last_text "hello" becomes "" again
C27_WitnessEmptied ==
    /\ call.op = "dictate"
    /\ call.ok
    /\ call.pre.last_text = W_hello
    /\ call.res.out.typed = << <<>> >>
    /\ last_text = <<>>
\* C28: pause() while LISTENING and resume() while PAUSED raise nothing, and
\* "leah pause" delivered while LISTENING leaves the controller PAUSED with
\* the button text refreshed and nothing raised.
C28_PauseResumeDoNotRaise ==
    /\ call.op \in {"pause", "resume"} => ~call.res.raised
    /\ ( /\ call.op = "handle_speech"
         /\ strip(lower(call.text)) = T_leah_pause
         /\ call.pre.controller_state = "LISTENING" )
       => /\ call.res.controller_state = "PAUSED"
          /\ call.res.button
          /\ ~call.res.raised
\* C29: once every pause() and resume() call has returned, the latest hint
\* the adapter was given is set_paused(True) exactly when the controller is
\* PAUSED.
C29_HintAgreesWithState ==
    (\A t \in Threads : pause_pc[t] = "idle")
    => (paused_hint = "True" <=> controller_state = "PAUSED")
\* C30: when typewrite fails in the dictation handler while the dispatcher
\* is LISTENING, DefaultSpeechHandler.handle_speech raises nothing and
\* returns the utterance it was given; last_text and the state stay.
C30_InjectionFailureFrame ==
    ( /\ call.op = "dispatch"
      /\ ~call.ok
      /\ call.pre.handler_state = "LISTENING"
      /\ call.res.out.typed # <<>> )
    => /\ ~call.res.out.raised
       /\ call.res.out.ret = call.text
       /\ call.res.out.injected = <<>>
       /\ last_text = call.pre.last_text
       /\ handler_state = "LISTENING"

\* C30 witness: typing "world" fails after "hello" was injected
C30_Witness ==
    /\ call.op = "dispatch"
    /\ ~call.ok
    /\ call.text = W_world
    /\ call.pre.handler_state = "LISTENING"
    /\ call.pre.last_text = W_hello
    /\ call.res.out.typed = << <<" ">> \o W_world >>
    /\ call.res.out.ret = W_world
    /\ last_text = W_hello

\* no wake-word command matches the utterance: it does not start with a
\* wake word, or it falls through the commands
pass_through(text) ==
    \/ ~is_command(split(lower(text)))
    \/ falls_through(text)

\* C31: in state LISTENING a pass-through utterance is given to the handler
\* at index 0 of the chain and to no other, and the dispatcher returns what
\* that handler returns; add_to_handler_chain appends, so index 0 is the
\* handler added first; with an empty chain the utterance is returned
\* unchanged and nothing is injected.
C31_ChainDispatch ==
    /\ ( /\ call.op = "dispatch"
         /\ call.ok
         /\ call.pre.handler_state = "LISTENING"
         /\ pass_through(call.text) )
       => LET chain == call.pre.handler_chain
              out   == call.res.out
          IN  IF chain = <<>>
              THEN /\ out.ret = call.text
                   /\ out.handlers = <<>>
                   /\ out.injected = <<>>
                   /\ out.typed = <<>>
              ELSE /\ out.handlers = <<chain[1]>>
                   /\ out.ret = invoke_handler(chain[1], call.text,
                                     "LISTENING", call.pre.last_text,
                                     special_chars, TRUE).ret
    /\ (call.op = "add" /\ ~call.res.raised)
       => handler_chain = Append(call.pre.handler_chain, call.handler)
\* a step of the thread inside start()
LoopStep ==
    \/ VoskOpenStream
    \/ VoskLoopTest
    \/ \E result \in WaveformResults : VoskGet(result)
    \/ VoskCallbackReturn

\* C32: once stop() has returned, the start() call on the other thread
\* returns: until it has, its thread can take a step, with no further audio
\* block needed.
C32_StartReturnsAfterStop ==
    (stop_pc = "returned" /\ loop_pc # "returned") => ENABLED LoopStep
\* C33: add_to_handler_chain with an object that is no BaseSpeechHandler
\* raises and leaves the chain as it was; remove_handler of a handler that
\* is not in the chain raises nothing and leaves the chain as it was;
\* clear_handlers leaves the chain empty; none of the three changes the
\* listening state.
C33_ChainMutation ==
    /\ (call.op = "add" /\ ~is_handler(call.handler))
       => /\ call.res.raised
          /\ handler_chain = call.pre.handler_chain
    /\ ( /\ call.op = "remove"
         /\ ~in_chain(call.pre.handler_chain, call.handler) )
       => /\ ~call.res.raised
          /\ handler_chain = call.pre.handler_chain
    /\ call.op = "clear"
       => /\ ~call.res.raised
          /\ handler_chain = <<>>
    /\ call.op \in {"add", "remove", "clear"}
       => /\ handler_state = call.pre.handler_state
          /\ controller_state = call.pre.controller_state

\* an object of another class was given to add_to_handler_chain while the
\* dispatcher was paused and its chain held a handler
C33_Witness ==
    /\ call.op = "add"
    /\ call.handler = NotAHandler
    /\ call.res.raised
    /\ call.pre.handler_state = "PAUSED"
    /\ call.pre.handler_chain = <<"OtherSpeechHandler">>
    /\ handler_chain = <<"OtherSpeechHandler">>

\* a handler that is not in the chain was removed from a chain of two
C33_WitnessRemove ==
    /\ call.op = "remove"
    /\ call.handler = "OtherSpeechHandler"
    /\ call.pre.handler_chain =
           <<"DictationSpeechHandler", "DictationSpeechHandler">>
    /\ handler_chain = call.pre.handler_chain

\* a chain of two was cleared while the dispatcher was stopped
C33_WitnessClear ==
    /\ call.op = "clear"
    /\ Len(call.pre.handler_chain) = 2
    /\ call.pre.handler_state = "STOPPED"
    /\ handler_chain = <<>>
=============================================================================
